---------------------------- MODULE Spec2Model ----------------------------
(***************************************************************************)
(* Model of geocoder-abbreviations (src/src/lib.rs): the token catalog     *)
(* loader.  One behaviour is one call by a client of one entry point:      *)
(*   config(v)                 the catalog build (config -> prepare)       *)
(*   import(lc)                the source provider, called on its own      *)
(*   Token::new(full, canonical, token_type, regex)                        *)
(*                                                                         *)
(* Strings that are only compared (language codes, type names) are TLA+    *)
(* strings.  Strings that are searched or parsed (full, canonical, the     *)
(* members of tokens, error messages) are sequences of lexemes, so that    *)
(* str::contains and the regex parser have something to work on.           *)
(***************************************************************************)
EXTENDS Naturals, Sequences, FiniteSets

VARIABLES
    data,      \* the embedded token files: language code -> raw JSON array
    entry,     \* which entry point this behaviour calls
    v,         \* config's argument
    lcArg,     \* import's argument, when import is called on its own
    newArgs,   \* Token::new's arguments <<full, canonical, token_type, regex>>
    pc,        \* "call", "prepare", "returned" or "panicked"
    codes,     \* prepare's argument
    idx,       \* prepare: position of the outer loop in codes
    map,       \* prepare: its local HashMap
    imports,   \* the codes import was called with, in call order
    warnings,  \* what println! wrote: the full of every filtered record
    result     \* what the caller got back

vars == <<data, entry, v, lcArg, newArgs, pc, codes, idx, map, imports, warnings, result>>

---------------------------------------------------------------------------
(* Bounds of the model *)

\* longest argument given to config
MaxCodes == 2
\* records in the varied token files, all files together
MaxRecords == 2

---------------------------------------------------------------------------
(* Option and Result *)

None == <<"None">>
Some(x) == <<"Some", x>>
Ok(x) == <<"Ok", x>>
Err(kind, arg) == <<"Err", <<kind, arg>>>>
Pending == <<"Pending">>

Range(s) == {s[i] : i \in 1..Len(s)}

---------------------------------------------------------------------------
(* lazy_static LANGUAGE_CODES *)

LANGUAGE_CODES ==
    <<"de", "en", "es", "et", "fi", "fr", "he", "id", "it",
      "ja", "nl", "no", "pl", "pt", "ro", "ru", "sv">>

\* Vec::contains
VecContains(vec, x) == \E i \in 1..Len(vec) : vec[i] = x

---------------------------------------------------------------------------
(* regex::Regex::new and regex::Error's Display, as far as lib.rs uses     *)
(* them.  A pattern is a sequence of lexemes; "(" opens a group, ")"       *)
(* closes one, "(?=" "(?!" "(?<=" "(?<!" open a look-around, anything else *)
(* is a literal.  The parser stops at its first error: a look-around where *)
(* it stands, an unopened ")" where it stands, an unclosed "(" at the end. *)
(* The message of a syntax error is                                        *)
(*     regex parse error:  <the pattern>  error: <what is wrong>           *)
(* that is, it quotes the pattern.                                         *)

LookAroundMsg == "look-around, including look-ahead and look-behind, is not supported"

LookAroundOpen == {"(?=", "(?!", "(?<=", "(?<!"}

RECURSIVE ParseFrom(_, _, _)
ParseFrom(p, i, depth) ==
    IF i > Len(p) THEN (IF depth > 0 THEN "unclosed group" ELSE "ok")
    ELSE IF p[i] \in LookAroundOpen THEN LookAroundMsg
    ELSE IF p[i] = "(" THEN ParseFrom(p, i + 1, depth + 1)
    ELSE IF p[i] = ")" THEN
        (IF depth = 0 THEN "unopened group" ELSE ParseFrom(p, i + 1, depth - 1))
    ELSE ParseFrom(p, i + 1, depth)

\* error.to_string() of the regex::Error for pattern p failing with `what`
RegexErrorToString(p, what) == <<"regex parse error:">> \o p \o <<"error:", what>>

\* Regex::new(&full): Ok(compiled) or Err(the error's message)
RegexNew(full) ==
    LET what == ParseFrom(full, 1, 0) IN
    IF what = "ok" THEN <<"Ok", [as_str |-> full]>>
    ELSE <<"Err", RegexErrorToString(full, what)>>

\* impl From<regex::Error> for Error
FromRegexError(msg) == <<"RegexError", msg>>

\* str::contains(needle), on a message of lexemes
StrContains(msg, needle) == \E i \in 1..Len(msg) : msg[i] = needle

---------------------------------------------------------------------------
(* TokenType::from_str *)

TokenTypeFromStrCaseless(s) ==
    CASE s \in {"box", "Box"} -> Ok("PostalBox")
      [] s \in {"cardinal", "Cardinal"} -> Ok("Cardinal")
      [] s \in {"number", "Number"} -> Ok("Number")
      [] s \in {"ordinal", "Ordinal"} -> Ok("Ordinal")
      [] s \in {"unit", "Unit"} -> Ok("Unit")
      [] s \in {"way", "Way"} -> Ok("Way")
      [] OTHER -> Err("TokenTypeNotSupported", s)

TokenTypeFromStr(s) ==
    CASE s = "box" -> Ok("PostalBox")
      [] s = "cardinal" -> Ok("Cardinal")
      [] s = "number" -> Ok("Number")
      [] s = "ordinal" -> Ok("Ordinal")
      [] s = "unit" -> Ok("Unit")
      [] s = "way" -> Ok("Way")
      [] OTHER -> Err("TokenTypeNotSupported", s)

---------------------------------------------------------------------------
(* Token::new *)

TokenNewSwapped(full, canonical, token_type, regex) ==
    LET re == IF regex THEN RegexNew(full) ELSE <<"Ok", None>> IN
    IF re[1] = "Err" THEN <<"Err", FromRegexError(re[2])>>
    ELSE Ok([regex |-> IF regex THEN Some(re[2]) ELSE None,
             tokens |-> <<full, canonical>>,
             full |-> full,
             canonical |-> canonical,
             note |-> None,
             only_countries |-> None,
             only_layers |-> None,
             prefer_full |-> FALSE,
             skip_boundaries |-> FALSE,
             skip_diacritic_stripping |-> FALSE,
             span_boundaries |-> None,
             token_type |-> token_type])

TokenNew(full, canonical, token_type, regex) ==
    LET re == IF regex THEN RegexNew(full) ELSE <<"Ok", None>> IN
    IF re[1] = "Err" THEN <<"Err", FromRegexError(re[2])>>
    ELSE Ok([regex |-> IF regex THEN Some(re[2]) ELSE None,
             tokens |-> <<canonical, full>>,
             full |-> full,
             canonical |-> canonical,
             note |-> None,
             only_countries |-> None,
             only_layers |-> None,
             prefer_full |-> FALSE,
             skip_boundaries |-> FALSE,
             skip_diacritic_stripping |-> FALSE,
             span_boundaries |-> None,
             token_type |-> token_type])

---------------------------------------------------------------------------
(* serde: a JSON object is a function from its keys; InToken is what       *)
(* #[derive(Deserialize)] makes of it: the three required fields, and      *)
(* every other field an Option, None when the key is absent, under the     *)
(* renamed keys.                                                           *)

JsonGet(obj, key) == IF key \in DOMAIN obj THEN Some(obj[key]) ELSE None

RequiredKeys == {"tokens", "full", "canonical"}

InToken(obj) ==
    [tokens |-> obj.tokens,
     full |-> obj.full,
     canonical |-> obj.canonical,
     note |-> JsonGet(obj, "note"),
     only_countries |-> JsonGet(obj, "onlyCountries"),
     only_layers |-> JsonGet(obj, "onlyLayers"),
     prefer_full |-> JsonGet(obj, "preferFull"),
     regex |-> JsonGet(obj, "regex"),
     skip_boundaries |-> JsonGet(obj, "skipBoundaries"),
     skip_diacritic_stripping |-> JsonGet(obj, "skipDiacriticStripping"),
     span_boundaries |-> JsonGet(obj, "spanBoundaries"),
     token_type |-> JsonGet(obj, "type")]

\* serde_json::from_str::<Vec<InToken>>(raw): Err when a record lacks a
\* required field
FromStr(raw) ==
    IF \A i \in 1..Len(raw) : RequiredKeys \subseteq DOMAIN raw[i]
    THEN <<"Ok", [i \in 1..Len(raw) |-> InToken(raw[i])]>>
    ELSE <<"Err", "missing field">>

\* Option<bool>::unwrap_or(false)
UnwrapOrFalse(o) == IF o = None THEN FALSE ELSE o[2]

---------------------------------------------------------------------------
(* Token::from_input: the fields are evaluated in the order written, the   *)
(* regex first and the token type last.                                    *)

FromInputNoTokens(input) ==
    LET re == IF input.regex = Some(TRUE) THEN RegexNew(input.full) ELSE <<"Ok", None>>
        tt == IF input.token_type = None THEN <<"Ok", None>>
              ELSE TokenTypeFromStr(input.token_type[2])
    IN
    IF re[1] = "Err" THEN <<"Err", FromRegexError(re[2])>>
    ELSE IF tt[1] = "Err" THEN tt
    ELSE Ok([regex |-> IF input.regex = Some(TRUE) THEN Some(re[2]) ELSE None,
             tokens |-> <<>>,
             full |-> input.full,
             canonical |-> input.canonical,
             note |-> input.note,
             only_countries |-> input.only_countries,
             only_layers |-> input.only_layers,
             prefer_full |-> UnwrapOrFalse(input.prefer_full),
             skip_boundaries |-> UnwrapOrFalse(input.skip_boundaries),
             skip_diacritic_stripping |-> UnwrapOrFalse(input.skip_diacritic_stripping),
             span_boundaries |-> input.span_boundaries,
             token_type |-> IF input.token_type = None THEN None ELSE Some(tt[2])])

FromInput(input) ==
    LET re == IF input.regex = Some(TRUE) THEN RegexNew(input.full) ELSE <<"Ok", None>>
        tt == IF input.token_type = None THEN <<"Ok", None>>
              ELSE TokenTypeFromStr(input.token_type[2])
    IN
    IF re[1] = "Err" THEN <<"Err", FromRegexError(re[2])>>
    ELSE IF tt[1] = "Err" THEN tt
    ELSE Ok([regex |-> IF input.regex = Some(TRUE) THEN Some(re[2]) ELSE None,
             tokens |-> input.tokens,
             full |-> input.full,
             canonical |-> input.canonical,
             note |-> input.note,
             only_countries |-> input.only_countries,
             only_layers |-> input.only_layers,
             prefer_full |-> UnwrapOrFalse(input.prefer_full),
             skip_boundaries |-> UnwrapOrFalse(input.skip_boundaries),
             skip_diacritic_stripping |-> UnwrapOrFalse(input.skip_diacritic_stripping),
             span_boundaries |-> input.span_boundaries,
             token_type |-> IF input.token_type = None THEN None ELSE Some(tt[2])])

---------------------------------------------------------------------------
(* import *)

ImportArms ==
    {"de", "en", "es", "et", "fi", "fr", "he", "id", "it",
     "ja", "nl", "no", "pl", "pt", "ro", "ru", "sv"}

ImportMissingArm(lc) ==
    IF lc \in ImportArms \ {"sv"} THEN Ok(data[lc])
    ELSE Err("TokenFileImportNotSupported", lc)

Import(lc) ==
    IF lc \in ImportArms THEN Ok(data[lc])
    ELSE Err("TokenFileImportNotSupported", lc)

---------------------------------------------------------------------------
(* prepare *)

\* the inner loop, from record j on: <<"Ok", tokens, warned>> when it runs
\* to its end, <<"Err", error, warned>> when it returns early
RECURSIVE CompileFrom(_, _, _, _)
CompileFrom(parsed, j, tokens, warned) ==
    IF j > Len(parsed) THEN <<"Ok", tokens, warned>>
    ELSE LET out == FromInput(parsed[j]) IN
         IF out[1] = "Ok"
         THEN CompileFrom(parsed, j + 1, Append(tokens, out[2]), warned)
         ELSE LET err == out[2] IN
              IF err[1] = "RegexError" /\ StrContains(err[2], LookAroundMsg)
              THEN CompileFrom(parsed, j + 1, tokens, Append(warned, parsed[j].full))
              ELSE <<"Err", err, warned>>

\* HashMap::insert
Empty == [k \in {} |-> <<>>]

InsertLosing(m, k, val) == [x \in {k} |-> val]

Insert(m, k, val) == [x \in DOMAIN m \cup {k} |-> IF x = k THEN val ELSE m[x]]

\* one pass of the outer loop: <<"Ok", tokens, warned>>, <<"Err", error, warned>>
\* or <<"Panic">> (the expect on the parse)
LangBody(lc) ==
    LET raw == Import(lc) IN
    IF raw[1] = "Err" THEN <<"Err", raw[2], <<>>>>
    ELSE LET parsed == FromStr(raw[2]) IN
         IF parsed[1] = "Err" THEN <<"Panic">>
         ELSE CompileFrom(parsed[2], 1, <<>>, <<>>)

\* prepare(cs) as a whole, from position i on with the map m
RECURSIVE PrepareFrom(_, _, _)
PrepareFrom(cs, i, m) ==
    IF i > Len(cs) THEN Ok(m)
    ELSE LET body == LangBody(cs[i]) IN
         IF body[1] = "Panic" THEN <<"Panic">>
         ELSE IF body[1] = "Err" THEN <<"Err", body[2]>>
         ELSE PrepareFrom(cs, i + 1, Insert(m, cs[i], body[2]))

PrepareFn(cs) == PrepareFrom(cs, 1, Empty)

---------------------------------------------------------------------------
(* The token files (tokens/<lc>.json, embedded by include_str!) are data  *)
(* of the build.  The records the model puts in them:                      *)

St == <<"St">>
Street == <<"Street">>
Group == <<"(", "a", ")">>
LookAhead == <<"(?=", "a", ")">>
Unclosed == <<"(", "a">>
\* an unclosed group whose text holds the sentence prepare looks for
UnclosedQuoting == <<"(", LookAroundMsg>>

J_plain == [tokens |-> <<Street, St>>, full |-> St, canonical |-> Street]

J_rich ==
    [tokens |-> <<Street, St>>, full |-> Group, canonical |-> Street,
     note |-> <<"note">>, onlyCountries |-> <<<<"us">>>>,
     onlyLayers |-> <<<<"address">>>>, preferFull |-> TRUE, regex |-> TRUE,
     skipBoundaries |-> TRUE, skipDiacriticStripping |-> TRUE,
     spanBoundaries |-> 1, type |-> "way"]

J_look == [tokens |-> <<Street>>, full |-> LookAhead, canonical |-> Street, regex |-> TRUE]

J_unclosed == [tokens |-> <<Street>>, full |-> Unclosed, canonical |-> Street, regex |-> TRUE]

J_quoting ==
    [tokens |-> <<Street>>, full |-> UnclosedQuoting, canonical |-> Street, regex |-> TRUE]

J_badtype ==
    [tokens |-> <<Street, St>>, full |-> St, canonical |-> Street,
     regex |-> FALSE, type |-> "Way"]

J_badtype_look ==
    [tokens |-> <<Street>>, full |-> LookAhead, canonical |-> Street,
     regex |-> TRUE, type |-> "street"]

J_badtype_unclosed ==
    [tokens |-> <<Street>>, full |-> Unclosed, canonical |-> Street,
     regex |-> TRUE, type |-> "Way"]

J_noregex ==
    [tokens |-> <<Street>>, full |-> Unclosed, canonical |-> Street,
     regex |-> FALSE, type |-> "box"]

J_notokens == [tokens |-> <<>>, full |-> St, canonical |-> Street]

\* not an InToken: canonical is missing
J_broken == [tokens |-> <<Street, St>>, full |-> St]

RawRecords ==
    {J_plain, J_rich, J_look, J_unclosed, J_quoting, J_badtype, J_badtype_look,
     J_badtype_unclosed, J_noregex, J_notokens, J_broken}

\* the files: de.json and sv.json (the first and the last of the registry)
\* vary, every other file holds DefaultFile
DefaultFile == <<J_plain>>

TokenFiles(de, sv) ==
    [lc \in ImportArms |->
        IF lc = "de" THEN de ELSE IF lc = "sv" THEN sv ELSE DefaultFile]

\* the codes config and import are called with: two of the registry, one
\* unknown, one of the registry in capitals
InputCodes == {"de", "sv", "zz", "EN"}
ImportCodes == ImportArms \cup {"zz", "EN"}

Inputs == UNION {[1..n -> InputCodes] : n \in 0..MaxCodes}

NewFulls == {St, Group, LookAhead, Unclosed, UnclosedQuoting}
NewCanonicals == {Street, <<>>}
TokenTypes == {"PostalBox", "Cardinal", "Number", "Ordinal", "Unit", "Way"}
NewTypes == {None} \cup {Some(t) : t \in TokenTypes}

NoArgs == <<>>

---------------------------------------------------------------------------
(* Initial states *)

InitData ==
    \E n1 \in 0..MaxRecords : \E n2 \in 0..(MaxRecords - n1) :
        \E f1 \in [1..n1 -> RawRecords] : \E f2 \in [1..n2 -> RawRecords] :
            data = TokenFiles(f1, f2)

InitLocals ==
    /\ pc = "call"
    /\ codes = <<>>
    /\ idx = 1
    /\ map = Empty
    /\ imports = <<>>
    /\ warnings = <<>>
    /\ result = Pending

InitConfig ==
    /\ entry = "config"
    /\ InitData
    /\ v \in Inputs
    /\ lcArg = "" /\ newArgs = NoArgs

InitImport ==
    /\ entry = "import"
    /\ \E f1, f2 \in {DefaultFile, <<>>, <<J_rich, J_broken>>} : data = TokenFiles(f1, f2)
    /\ lcArg \in ImportCodes
    /\ v = <<>> /\ newArgs = NoArgs

InitNew ==
    /\ entry = "new"
    /\ data = TokenFiles(DefaultFile, DefaultFile)
    /\ newArgs \in NewFulls \X NewCanonicals \X NewTypes \X BOOLEAN
    /\ v = <<>> /\ lcArg = ""

Init == InitLocals /\ (InitConfig \/ InitImport \/ InitNew)

---------------------------------------------------------------------------
(* config *)

\* the validation loop: the first lc of v that LANGUAGE_CODES does not contain
RECURSIVE FirstUnsupportedFrom(_, _)
FirstUnsupportedFrom(cs, i) ==
    IF i > Len(cs) THEN None
    ELSE IF ~VecContains(LANGUAGE_CODES, cs[i]) THEN Some(cs[i])
    ELSE FirstUnsupportedFrom(cs, i + 1)

RECURSIVE LastUnsupportedFrom(_, _)
LastUnsupportedFrom(cs, i) ==
    IF i < 1 THEN None
    ELSE IF ~VecContains(LANGUAGE_CODES, cs[i]) THEN Some(cs[i])
    ELSE LastUnsupportedFrom(cs, i - 1)

FirstUnsupportedReversed(cs) == LastUnsupportedFrom(cs, Len(cs))

FirstUnsupported(cs) == FirstUnsupportedFrom(cs, 1)

ConfigNoDefault ==
    /\ entry = "config" /\ pc = "call"
    /\ IF FirstUnsupported(v) = None
       THEN /\ codes' = v
            /\ pc' = "prepare"
            /\ UNCHANGED result
       ELSE /\ result' = Err("LanguageCodeNotSupported", FirstUnsupported(v)[2])
            /\ pc' = "returned"
            /\ UNCHANGED codes
    /\ UNCHANGED <<data, entry, v, lcArg, newArgs, idx, map, imports, warnings>>

\* config up to its call of prepare
Config ==
    /\ entry = "config" /\ pc = "call"
    /\ IF v = <<>>
       THEN /\ codes' = LANGUAGE_CODES
            /\ pc' = "prepare"
            /\ UNCHANGED result
       ELSE IF FirstUnsupported(v) = None
       THEN /\ codes' = v
            /\ pc' = "prepare"
            /\ UNCHANGED result
       ELSE /\ result' = Err("LanguageCodeNotSupported", FirstUnsupported(v)[2])
            /\ pc' = "returned"
            /\ UNCHANGED codes
    /\ UNCHANGED <<data, entry, v, lcArg, newArgs, idx, map, imports, warnings>>

\* a pass of prepare's outer loop that goes on after a hard error
PrepareLangSkipping ==
    /\ pc = "prepare" /\ idx <= Len(codes)
    /\ LET lc == codes[idx]
           body == LangBody(lc)
       IN
       /\ imports' = Append(imports, lc)
       /\ IF body[1] = "Panic"
          THEN /\ pc' = "panicked"
               /\ UNCHANGED <<idx, map, warnings, result>>
          ELSE /\ warnings' = warnings \o body[3]
               /\ idx' = idx + 1
               /\ map' = IF body[1] = "Ok" THEN Insert(map, lc, body[2]) ELSE map
               /\ UNCHANGED <<pc, result>>
    /\ UNCHANGED <<data, entry, v, lcArg, newArgs, codes>>

\* one pass of prepare's outer loop: import, parse, compile every record,
\* insert.  An error returns it to config's caller (config's ? passes it on)
\* and drops the map.
PrepareLang ==
    /\ pc = "prepare" /\ idx <= Len(codes)
    /\ LET lc == codes[idx]
           body == LangBody(lc)
       IN
       /\ imports' = Append(imports, lc)
       /\ IF body[1] = "Panic"
          THEN /\ pc' = "panicked"
               /\ UNCHANGED <<idx, map, warnings, result>>
          ELSE /\ warnings' = warnings \o body[3]
               /\ IF body[1] = "Err"
                  THEN /\ result' = <<"Err", body[2]>>
                       /\ pc' = "returned"
                       /\ map' = Empty
                       /\ UNCHANGED idx
                  ELSE /\ map' = Insert(map, lc, body[2])
                       /\ idx' = idx + 1
                       /\ UNCHANGED <<pc, result>>
    /\ UNCHANGED <<data, entry, v, lcArg, newArgs, codes>>

\* the outer loop is over: Ok(map)
PrepareReturn ==
    /\ pc = "prepare" /\ idx > Len(codes)
    /\ result' = Ok(map)
    /\ pc' = "returned"
    /\ UNCHANGED <<data, entry, v, lcArg, newArgs, codes, idx, map, imports, warnings>>

---------------------------------------------------------------------------
(* the other entry points *)

CallImport ==
    /\ entry = "import" /\ pc = "call"
    /\ result' = Import(lcArg)
    /\ imports' = Append(imports, lcArg)
    /\ pc' = "returned"
    /\ UNCHANGED <<data, entry, v, lcArg, newArgs, codes, idx, map, warnings>>

CallNew ==
    /\ entry = "new" /\ pc = "call"
    /\ result' = TokenNew(newArgs[1], newArgs[2], newArgs[3], newArgs[4])
    /\ pc' = "returned"
    /\ UNCHANGED <<data, entry, v, lcArg, newArgs, codes, idx, map, imports, warnings>>

Next == Config \/ PrepareLang \/ PrepareReturn \/ CallImport \/ CallNew

Spec == Init /\ [][Next]_vars

\* what the call came to, a panic included
Outcome == IF pc = "panicked" THEN <<"Panic">> ELSE result

\* the two readings of prepare, pass by pass and as a whole, agree
PrepareAgrees ==
    (entry = "config" /\ pc \in {"returned", "panicked"} /\ codes # <<>>)
        => Outcome = PrepareFn(codes)

---------------------------------------------------------------------------
(* Vocabulary of the properties *)

\* the registry, as the specification lists it
SupportedCodes ==
    {"de", "en", "es", "et", "fi", "fr", "he", "id", "it",
     "ja", "nl", "no", "pl", "pt", "ro", "ru", "sv"}

SupportedTypeNames == {"box", "cardinal", "number", "ordinal", "unit", "way"}

Min(S) == CHOOSE x \in S : \A y \in S : x <= y

Built == entry = "config" /\ pc = "returned" /\ result[1] = "Ok"
Failed == entry = "config" /\ pc = "returned" /\ result[1] = "Err"

WellFormed(lc) == FromStr(data[lc])[1] = "Ok"
Parsed(lc) == FromStr(data[lc])[2]

RequestsRegex(tk) == tk.regex = Some(TRUE)
CompileFails(tk) == RequestsRegex(tk) /\ RegexNew(tk.full)[1] = "Err"
\* why the compilation fails is the parser's verdict, not the message's text
FailsByLookAround(tk) == CompileFails(tk) /\ ParseFrom(tk.full, 1, 0) = LookAroundMsg
FailsOtherwise(tk) == CompileFails(tk) /\ ParseFrom(tk.full, 1, 0) # LookAroundMsg
BadType(tk) == tk.token_type # None /\ tk.token_type[2] \notin SupportedTypeNames

\* the one error a build recovers from, and every other error of a record
Recovered(tk) ==
    CompileFails(tk) /\ StrContains(RegexNew(tk.full)[2], LookAroundMsg)
HardError(tk) == FromInput(tk)[1] = "Err" /\ ~Recovered(tk)

HardAt(file) == {j \in 1..Len(file) : HardError(file[j])}
\* the languages, by position in codes, at which a build cannot go on
Stops ==
    {i \in 1..Len(codes) :
        ~WellFormed(codes[i]) \/ HardAt(Parsed(codes[i])) # {}}

\* after a failed build: the record that failed it
FailingKnown ==
    /\ Failed /\ idx \in 1..Len(codes) /\ WellFormed(codes[idx])
    /\ HardAt(Parsed(codes[idx])) # {}
FailingRecord ==
    LET file == Parsed(codes[idx]) IN file[Min(HardAt(file))]

\* the records a build has gone through without stopping
PassedFiles ==
    {i \in 1..Len(codes) : (Built \/ (Failed /\ i < idx)) /\ WellFormed(codes[i])}

---------------------------------------------------------------------------
(* C1: a successful config(v) for a non-empty v of supported codes returns *)
(* a mapping whose key set is exactly the set of the codes of v.           *)
C1_KeysAreRequested ==
    (Built /\ v # <<>> /\ Range(v) \subseteq SupportedCodes)
        => DOMAIN result[2] = Range(v)

C1_Witness == Built /\ Len(v) = 2 /\ v[1] # v[2] /\ DOMAIN result[2] = {"de", "sv"}

(* C2: config(<<>>) comes to what prepare comes to on the whole registry;  *)
(* its mapping has exactly the 17 registry codes as keys; it never fails   *)
(* with LanguageCodeNotSupported.                                          *)
C2_EmptyMeansAll ==
    (entry = "config" /\ v = <<>> /\ pc \in {"returned", "panicked"})
        => /\ Outcome = PrepareFn(LANGUAGE_CODES)
           /\ (result[1] = "Ok" => DOMAIN result[2] = SupportedCodes)
           /\ (result[1] = "Err" => result[2][1] # "LanguageCodeNotSupported")

C2_Witness ==
    Built /\ v = <<>> /\ Cardinality(DOMAIN result[2]) = 17 /\ Len(result[2]["sv"]) = 2

(* C3: config(v), v non-empty with a code outside the registry, fails with *)
(* LanguageCodeNotSupported(c), c the first such code of v, and nothing is *)
(* imported, compiled or inserted before it does.                          *)
C3_FirstUnsupported ==
    (entry = "config" /\ pc # "call" /\ v # <<>>
        /\ \E i \in 1..Len(v) : v[i] \notin SupportedCodes)
        => LET k == Min({i \in 1..Len(v) : v[i] \notin SupportedCodes}) IN
           /\ pc = "returned"
           /\ result = Err("LanguageCodeNotSupported", v[k])
           /\ imports = <<>> /\ map = Empty /\ warnings = <<>>

C3_Witness ==
    /\ entry = "config" /\ pc = "returned" /\ Len(v) = 2
    /\ v[1] \in SupportedCodes /\ v[2] = "EN"
    /\ data[v[1]] # <<>>

C5_Claim ==
    Built =>
        \A lc \in DOMAIN result[2] :
            LET kept == SelectSeq(Parsed(lc), LAMBDA tk : ~FailsByLookAround(tk)) IN
            /\ Len(result[2][lc]) = Len(kept)
            /\ \A j \in 1..Len(kept) : result[2][lc][j] = FromInput(kept[j])[2]

(* C6, as claimed: a record with an unsupported type string fails the      *)
(* build with TokenTypeNotSupported(value) whatever its other fields are:  *)
(* no build goes through such a record, and a build that such a record     *)
(* fails ends with that error.                                             *)
C6_Original ==
    /\ \A i \in PassedFiles : \A j \in 1..Len(Parsed(codes[i])) :
           ~BadType(Parsed(codes[i])[j])
    /\ (FailingKnown /\ BadType(FailingRecord))
           => result = Err("TokenTypeNotSupported", FailingRecord.token_type[2])

(* C6, amended: a record with an unsupported type string whose regex is    *)
(* not requested or compiles fails the build with                          *)
(* TokenTypeNotSupported(value); one whose requested regex fails to        *)
(* compile is decided by that failure.  Either way no Token of a returned  *)
(* catalog comes from such a record.                                       *)
C6_TypeErrorAfterRegex ==
    /\ \A i \in PassedFiles : \A j \in 1..Len(Parsed(codes[i])) :
           BadType(Parsed(codes[i])[j]) => CompileFails(Parsed(codes[i])[j])
    /\ Built => \A lc \in DOMAIN result[2] : \A j \in 1..Len(result[2][lc]) :
           result[2][lc][j].token_type \in {None} \cup {Some(t) : t \in TokenTypes}
    /\ (FailingKnown /\ BadType(FailingRecord) /\ ~CompileFails(FailingRecord))
           => result = Err("TokenTypeNotSupported", FailingRecord.token_type[2])
    /\ (Failed /\ result[2][1] = "TokenTypeNotSupported")
           => FailingKnown /\ BadType(FailingRecord)
                /\ result[2][2] = FailingRecord.token_type[2]

C6_Witness ==
    /\ Failed /\ result = Err("TokenTypeNotSupported", "Way")
    /\ FailingKnown /\ FailingRecord = InToken(J_badtype)

(* C7, as claimed: a record whose requested regex fails to compile for a   *)
(* reason other than look-around fails the build with RegexError(message)  *)
(* and is never skipped; a record that requests no regex gives a Token     *)
(* without regex and never a RegexError.                                   *)
C7_Claim ==
    /\ \A i \in PassedFiles : \A j \in 1..Len(Parsed(codes[i])) :
           ~FailsOtherwise(Parsed(codes[i])[j])
    /\ (FailingKnown /\ FailsOtherwise(FailingRecord))
           => result = <<"Err", FromRegexError(RegexNew(FailingRecord.full)[2])>>
    /\ (FailingKnown /\ ~RequestsRegex(FailingRecord))
           => result[2][1] # "RegexError"

(* C8, as claimed: every Token of a returned catalog has a non-empty       *)
(* tokens sequence, whatever well-formed data the files hold.              *)
C8_Original ==
    Built => \A lc \in DOMAIN result[2] : \A j \in 1..Len(result[2][lc]) :
        Len(result[2][lc][j].tokens) > 0

(* C8, amended: every Token of a returned catalog carries the tokens list  *)
(* of the record it was compiled from, unchanged; so the Tokens of a       *)
(* language all have non-empty tokens when the records of its file do.     *)
C8_TokensCopied ==
    Built => \A lc \in DOMAIN result[2] :
        LET kept == SelectSeq(Parsed(lc), LAMBDA tk : ~Recovered(tk))
            list == result[2][lc]
        IN
        /\ Len(list) = Len(kept)
        /\ \A j \in 1..Len(kept) : list[j].tokens = kept[j].tokens
        /\ (\A j \in 1..Len(Parsed(lc)) : Len(Parsed(lc)[j].tokens) > 0)
               => \A j \in 1..Len(list) : Len(list[j].tokens) > 0

C8_Witness ==
    /\ Built /\ "de" \in DOMAIN result[2]
    /\ Len(data["de"]) = 2 /\ Len(result[2]["de"]) = 1
    /\ result[2]["de"][1].tokens = <<Street, St>>

(* C9: Token::new(full, canonical, t, false) is Ok of the Token with       *)
(* tokens <<canonical, full>>, full and canonical as given, token_type t,  *)
(* no regex, no note, only_countries, only_layers or span_boundaries, and  *)
(* the three flags false.                                                  *)
C9_TokenNew ==
    (entry = "new" /\ pc = "returned" /\ newArgs[4] = FALSE)
        => result = Ok([tokens |-> <<newArgs[2], newArgs[1]>>,
                        full |-> newArgs[1],
                        canonical |-> newArgs[2],
                        token_type |-> newArgs[3],
                        regex |-> None,
                        note |-> None,
                        only_countries |-> None,
                        only_layers |-> None,
                        span_boundaries |-> None,
                        prefer_full |-> FALSE,
                        skip_boundaries |-> FALSE,
                        skip_diacritic_stripping |-> FALSE])

C9_Witness ==
    /\ entry = "new" /\ pc = "returned" /\ newArgs[4] = FALSE
    /\ newArgs[1] = Unclosed /\ newArgs[3] = Some("Way") /\ result[1] = "Ok"

(* C10: import(code) is Ok for each of the 17 registry codes and           *)
(* TokenFileImportNotSupported(code) for every other code; config never    *)
(* returns TokenFileImportNotSupported, every import it makes resolving.   *)
C10_ImportTotalOnRegistry ==
    /\ (entry = "import" /\ pc = "returned") =>
           IF lcArg \in SupportedCodes
           THEN result = Ok(data[lcArg])
           ELSE result = Err("TokenFileImportNotSupported", lcArg)
    /\ entry = "config" =>
           /\ result[1] = "Err" => result[2][1] # "TokenFileImportNotSupported"
           /\ \A i \in 1..Len(imports) : imports[i] \in SupportedCodes

C10_Witness == Built /\ imports = LANGUAGE_CODES

====
